---- MODULE Spec2Model ----
(***************************************************************************)
(* The model record store of pharmpy (LocalModelDirectoryDatabase) as a    *)
(* state machine: the PENDING markers, the record directories and their    *)
(* files on disk, the database-wide lock file, and the processes that call *)
(* transaction() and snapshot() on one store.                              *)
(*                                                                         *)
(* A process has at most one call or scope in progress.  A second call a   *)
(* thread makes inside its own scope meets the lock exactly as a call of   *)
(* another process does, except that its outer scope cannot exit           *)
(* meanwhile: its behaviours are prefixes of the ones modelled here.       *)
(***************************************************************************)
EXTENDS Naturals, FiniteSets, Sequences, TLC

\* Bounds of the model.
NumProcs == 2
NumKeys == 2
\* The most rows the log gets.
MaxLog == 2
\* The most lines an annotations file gets.
MaxNotes == 2

Procs == 1..NumProcs
\* Model names (store keys): "m1", "m2", ...
Keys == {"m" \o ToString(i) : i \in 1..NumKeys}
NoKey == ""

\* The files a transaction writes into a record directory:
\*   model    <name>/<name><ext>            (store_model)
\*   metadata <name>/.pharmpy/metadata.json (store_metadata)
\*   results  <name>/.pharmpy/results.json  (store_modelfit_results)
\*   local    <name>/<file>                 (store_local_file)
FileKinds == {"model", "metadata", "results", "local"}

\* A context tree on one model database (<top>/.modeldb): the top-level
\* context and a subcontext of it, and the names given to models.
Root == <<"ctx">>
Sub == <<"ctx", "sub">>
Contexts == {Root, Sub}
Names == {"run1", "run2"}
NoCall == <<>>
\* A second subcontext of the top-level context.
Sib == <<"ctx", "sib">>
Tree == {Root, Sub, Sib}
\* A subcontext of the subcontext.
Deep == <<"ctx", "sub", "deep">>
Forest == Tree \cup {Deep}
SubNames == {"sub", "sib", "deep"}
NoObject == [path |-> <<>>, _top_path |-> <<>>]

VARIABLES
    pc,           \* pc[p]: where process p is in transaction()/snapshot()
    call,         \* call[p]: the method p is in, or that last failed for p
    key,          \* key[p]: the model name of p's call in progress
    held,         \* held[p]: the mode in which p holds <db>/.lock
    result,       \* result[p]: outcome of p's last call or scope
    calledDuring, \* history: the transaction scope open when p called
    pending,      \* pending[k]: <db>/<k>/.pharmpy/PENDING exists
    dirs,         \* the k whose directory <db>/<k>/.pharmpy exists
    files,        \* files[k]: the files present in record <db>/<k>
    csv,          \* csv[f]: content of <db>/.datasets/<f>.csv, f in DOMAIN
    sidecar,      \* sidecar[f]: the datainfo in <db>/.datasets/<f>.datainfo
    index,        \* <<h, f>>: the index file <db>/.datasets/.hash/<h>/<f>.csv
    model,        \* model[k]: the model file stored in record <db>/<k>:
                  \* the dataset file it points to, and the dataset the
                  \* model had when it was stored
    txnobj,       \* txnobj[p]: key of a transaction object p kept after
                  \* its scope, NoKey when p kept none
    links,        \* links[c][n]: the key the symlink <c>/models/<n> points
                  \* to, NoKey when there is no such link
    last,         \* history: context, name and key of the store_key call,
                  \* when that was the last call of store_key/retrieve_name
    asked,        \* history: context and key of the retrieve_name call,
                  \* when that was the last call of store_key/retrieve_name
    log,          \* the rows of <top>/log.csv below its header line
    logfile,      \* <top>/log.csv exists
    seen,         \* context, level and rows of the last retrieve_log, while
                  \* the log is as that call read it
    notes,        \* notes[c]: the lines of the file <c>/annotations
    noted,        \* history: context, name and text of the last
                  \* store_annotation
    ctxarg,       \* ctxarg[p]: the context whose method p is calling
    fheld,        \* fheld[p]: the mode in which p holds the lock file of
                  \* the log or annotations file its call works on
    ext,          \* ext[k]: the filename extension of the model the callers
                  \* store under k (an attribute of the model)
    storing,      \* storing[p]: dataset and datainfo of the store_model call
                  \* p is in
    obj,          \* obj[p]: the context object p holds: its path and the
                  \* top path its constructor found
    ctxdirs,      \* the context directories that exist
    stored,       \* history: stored[c][name]: the text of the last
                  \* store_annotation(name, text) that returned on context c
    made,         \* made[p]: the constructor p is in has made the directory
                  \* of its context: there was no context at its path
    times,        \* the date column of the rows of <top>/log.csv
    clock,        \* the time of day, as the callers' datetime.now() reads it
    stamp         \* stamp[p]: the date p passes to store_message

\* The dataset store <db>/.datasets and the model files that point into it.
dataset_store == <<csv, sidecar, index, model>>

store == <<pending, dirs, files, dataset_store>>

\* What the callers hold besides a call or scope in progress.
\* The dates of the log: the column, the clock, and the callers' arguments.
logtime == <<times, clock, stamp>>

ctxfiles ==
    <<log, logfile, seen, notes, noted, stored, ctxarg, fheld, logtime, made>>

\* The context objects and directories of the tree.
tree == <<obj, ctxdirs>>

rest == <<txnobj, links, last, asked, ctxfiles, tree, storing, ext>>

vars == <<pc, call, key, held, result, calledDuring, store, rest>>

procs == <<pc, call, key, held, result, calledDuring>>

\* What a call on the log or on annotations leaves alone.
elsewhere ==
    <<key, held, result, calledDuring, store, txnobj, links, last, asked,
      tree, storing, ext, made>>

\* p's scope is open: its lock is held.  The body of a transaction scope
\* runs in "txn"; in "txn_commit" the generator has resumed after the yield
\* and removed the marker, and has not yet left `with self._write_lock()`.
InTxn(p) == pc[p] \in {"txn", "txn_commit"}
InSnap(p) == pc[p] = "snap"
InScope(p) == InTxn(p) \/ InSnap(p)
Waiting(p) == pc[p] \in {"txn_lock", "snap_lock"}

----------------------------------------------------------------------------
\* pharmpy.internals.fs.lock.path_lock(path, shared): a blocking advisory
\* lock on one file.  A shared lock is obtainable when nobody else holds the
\* file exclusively, an exclusive lock when nobody else holds it at all.
path_lock(p, shared) ==
    IF shared
    THEN \A q \in Procs \ {p} : held[q] # "exclusive"
    ELSE \A q \in Procs \ {p} : held[q] = "none"

LockMode(shared) == IF shared THEN "shared" ELSE "exclusive"

\* The `shared` argument _read_lock and _write_lock pass to path_lock.
read_lock_sharedMutant == FALSE

read_lock_shared == TRUE

write_lock_sharedMutant == TRUE

write_lock_shared == FALSE

\* _read_lock() / _write_lock(): can p obtain the lock of the whole database?
\* `locking` is FALSE only in SpecMarkerOnly, where the lock excludes nobody.
_read_lockMutant(p, locking) == TRUE

_read_lock(p, locking) == locking => path_lock(p, read_lock_shared)

_write_lockMutant(p, locking) == TRUE

_write_lock(p, locking) == locking => path_lock(p, write_lock_shared)

----------------------------------------------------------------------------
InitStore ==
    /\ pc = [p \in Procs |-> "idle"]
    /\ call = [p \in Procs |-> "none"]
    /\ key = [p \in Procs |-> NoKey]
    /\ held = [p \in Procs |-> "none"]
    /\ result = [p \in Procs |-> "none"]
    /\ calledDuring = [p \in Procs |-> "none"]
    /\ pending = [k \in Keys |-> FALSE]
    /\ dirs = {}
    /\ files = [k \in Keys |-> {}]
    /\ csv = <<>>
    /\ sidecar = <<>>
    /\ index = {}
    /\ model = <<>>
    /\ txnobj = [p \in Procs |-> NoKey]
    /\ links = [c \in Contexts |-> [n \in Names |-> NoKey]]
    /\ last = NoCall
    /\ asked = NoCall
    /\ log = <<>>
    /\ logfile = FALSE
    /\ seen = NoCall
    /\ notes = [c \in Contexts |-> <<>>]
    /\ noted = NoCall
    /\ stored = [c \in Contexts |-> <<>>]
    /\ ctxarg = [p \in Procs |-> NoCall]
    /\ fheld = [p \in Procs |-> "none"]
    /\ obj = [p \in Procs |-> NoObject]
    /\ ctxdirs = {}
    /\ times = <<>>
    /\ clock = 0
    /\ stamp = [p \in Procs |-> 0]
    /\ made = [p \in Procs |-> FALSE]
    /\ storing = [p \in Procs |-> NoCall]

\* The filename extensions of models: NONMEM control streams (.mod, .ctl),
\* and models of another format.
Extensions == {".mod", ".ctl", ".R"}

\* The callers store NONMEM models, unless said otherwise.
Init == InitStore /\ ext = [k \in Keys |-> ".mod"]

\* What is open in the store when p calls on key k: a transaction scope on
\* k, one on another key, or none.
OpenTxnSeen(p, k) ==
    IF \E q \in Procs \ {p} : pc[q] = "txn" /\ key[q] = k THEN "same"
    ELSE IF \E q \in Procs \ {p} : pc[q] = "txn" THEN "other"
    ELSE "none"

\* The first lines of transaction() and snapshot(), before the lock: the
\* record's metadata directory is created (mkdir parents, exist_ok).
EnterCall(p, k, method, waitpc) ==
    /\ pc[p] = "idle"
    /\ pc' = [pc EXCEPT ![p] = waitpc]
    /\ call' = [call EXCEPT ![p] = method]
    /\ key' = [key EXCEPT ![p] = k]
    /\ result' = [result EXCEPT ![p] = "none"]
    /\ calledDuring' = [calledDuring EXCEPT ![p] = OpenTxnSeen(p, k)]
    /\ dirs' = dirs \cup {k}
    /\ UNCHANGED <<held, pending, files, dataset_store, rest>>

CallTransaction(p, k) == EnterCall(p, k, "transaction", "txn_lock")

CallSnapshot(p, k) == EnterCall(p, k, "snapshot", "snap_lock")

\* raise PendingTransactionError() inside `with self._xxx_lock()`: the with
\* statement releases the lock as the exception leaves it.
RaisePendingMutant(p, mode) ==
    /\ pc' = [pc EXCEPT ![p] = "idle"]
    /\ key' = [key EXCEPT ![p] = NoKey]
    /\ result' = [result EXCEPT ![p] = "PendingTransactionError"]
    /\ calledDuring' = [calledDuring EXCEPT ![p] = "none"]
    /\ held' = [held EXCEPT ![p] = mode]

RaisePending(p, mode) ==
    /\ pc' = [pc EXCEPT ![p] = "idle"]
    /\ key' = [key EXCEPT ![p] = NoKey]
    /\ result' = [result EXCEPT ![p] = "PendingTransactionError"]
    /\ calledDuring' = [calledDuring EXCEPT ![p] = "none"]
    /\ held' = [held EXCEPT ![p] = "none"]

\* The yield: the caller gets the transaction / snapshot object and its
\* scope is open, the lock held in `mode`.
Yield(p, scopepc, mode) ==
    /\ pc' = [pc EXCEPT ![p] = scopepc]
    /\ held' = [held EXCEPT ![p] = mode]
    /\ result' = [result EXCEPT ![p] = "ok"]
    /\ calledDuring' = [calledDuring EXCEPT ![p] = "none"]
    /\ UNCHANGED key

\* path.touch(exist_ok=False) raises FileExistsError when the marker exists
\* and creates it otherwise; the check and the creation are one step of the
\* file system (O_CREAT | O_EXCL).
touchMutant(k) == FALSE

touch_FileExistsError(k) == pending[k]

\* transaction(), from `with self._write_lock()` to the yield.
AcquireWrite(p, locking) ==
    /\ pc[p] = "txn_lock"
    /\ _write_lock(p, locking)
    /\ IF touch_FileExistsError(key[p])
       THEN /\ RaisePending(p, LockMode(write_lock_shared))
            /\ UNCHANGED pending
       ELSE /\ pending' = [pending EXCEPT ![key[p]] = TRUE]
            /\ Yield(p, "txn", LockMode(write_lock_shared))
    /\ UNCHANGED <<call, dirs, files, dataset_store, rest>>

\* snapshot(): `if path.exists()` on the marker of the key.
pending_existsNever(k) == FALSE

pending_existsAny(k) == \E j \in Keys : pending[j]

pending_exists(k) == pending[k]

\* snapshot(), from `with self._read_lock()` to the yield.
AcquireRead(p, locking) ==
    /\ pc[p] = "snap_lock"
    /\ _read_lock(p, locking)
    /\ IF pending_exists(key[p])
       THEN RaisePending(p, LockMode(read_lock_shared))
       ELSE Yield(p, "snap", LockMode(read_lock_shared))
    /\ UNCHANGED <<call, store, rest>>

----------------------------------------------------------------------------
\* The store_* methods of the transaction object, called inside the scope.

\* Dataset contents and datainfo descriptions of the models that are stored.
NumData == 2

Data == 1..NumData
\* Two datainfos equal in everything but the path, or not: the code only
\* compares them.
Infos == {"di1", "di2"}

\* pharmpy.internals.df.hash_df_fs: a hash of the dataset's content.  It is
\* shorter than the content, so different contents can share a hash: here
\* the datasets 1 and 2 do, 3 and 4 do, ...
hash_df_fs(d) == (d + 1) \div 2

\* The model a caller of Spec stores under key k: every key has a dataset
\* of its own, "m1" the dataset 1, "m2" the dataset 2, ...
OwnData(k) == CHOOSE i \in 1..NumKeys : k = "m" \o ToString(i)
OwnInfo(k) == "di1"

\* Writing the file f of a directory: it is created, or overwritten when it
\* exists.
write(dir, f, content) == (f :> content) @@ dir

\* write_csv(model, path=<db>/.datasets/<f>.csv, force=True).
write_csvNoForce(f, d) == IF f \in DOMAIN csv THEN csv ELSE write(csv, f, d)

write_csv(f, d) == write(csv, f, d)

\* The loop over h_dir.iterdir() in store_model: the files indexed under the
\* hash of d that the model can point to.  An indexed file f qualifies when
\* the datainfo read from <f>.datainfo equals the model's (paths are not
\* compared) and the dataset read from <f>.csv equals d.
ReusableIgnoringContent(d, di) ==
    {f \in Keys : <<hash_df_fs(d), f>> \in index /\ sidecar[f] = di}

ReusableNever(d, di) == {}

Reusable(d, di) ==
    {f \in Keys : /\ <<hash_df_fs(d), f>> \in index
                  /\ sidecar[f] = di
                  /\ csv[f] = d}

\* index_path.touch(): the index file .hash/<h>/<f>.csv is created.
touch_index(h, f) == index \cup {<<h, f>>}

\* store_model of the model named key[p] with dataset d and datainfo di.
\* The loop breaks at the first file that qualifies, in the order iterdir()
\* lists the index: the model then points to that file and nothing is
\* written to the dataset store.  When no file qualifies (the else of the
\* for loop) the index file .hash/<h>/<name>.csv is touched, the dataset is
\* written to <name>.csv with force=True and the datainfo to
\* <name>.datainfo.  Then the model file is written into the record.
StoreModel(p, d, di) ==
    /\ pc[p] = "txn"
    /\ IF Reusable(d, di) # {}
       THEN /\ \E f \in Reusable(d, di) :
                 model' = write(model, key[p],
                                [data |-> d, path |-> f])
            /\ UNCHANGED <<csv, sidecar, index>>
       ELSE /\ index' = touch_index(hash_df_fs(d), key[p])
            /\ csv' = write_csv(key[p], d)
            /\ sidecar' = write(sidecar, key[p], di)
            /\ model' = write(model, key[p],
                              [data |-> d, path |-> key[p]])
    /\ files' = [files EXCEPT ![key[p]] = @ \cup {"model"}]
    /\ UNCHANGED <<procs, pending, dirs, rest>>

WriteFile(p, kind) ==
    /\ pc[p] = "txn"
    /\ files' = [files EXCEPT ![key[p]] = @ \cup {kind}]
    /\ UNCHANGED <<procs, pending, dirs, dataset_store, rest>>

StoreMetadata(p) == WriteFile(p, "metadata")

\* store_modelfit_results writes results.json only when the entry has results.
StoreModelfitResults(p) ==
    \E has_results \in BOOLEAN :
        IF has_results
        THEN WriteFile(p, "results")
        ELSE pc[p] = "txn" /\ UNCHANGED vars

\* The retrieve_* methods of the snapshot object, called inside the scope:
\* they read the record and the dataset store and write nothing into the
\* store (retrieve_local_files copies to a destination the caller names).
\* When a file is missing they raise, and the exception leaves the scope.
Retrieve(p) ==
    /\ pc[p] = "snap"
    /\ UNCHANGED vars

\* list_models(): the record directories of the store.
list_models == dirs

----------------------------------------------------------------------------
\* The scope exits.

\* The body of the with statement ended without an exception: the generator
\* resumes after the yield and commits with path.unlink().
unlinkNothing(k) == pending

unlinkAll(k) == [j \in Keys |-> FALSE]

unlink(k) == [pending EXCEPT ![k] = FALSE]

Commit(p) ==
    /\ pc[p] = "txn"
    /\ pending' = unlink(key[p])
    /\ pc' = [pc EXCEPT ![p] = "txn_commit"]
    /\ UNCHANGED <<call, key, held, result, calledDuring,
                   dirs, files, dataset_store, rest>>

\* Leaving `with self._xxx_lock()` releases the lock.
LeaveScope(p, outcome) ==
    /\ pc' = [pc EXCEPT ![p] = "idle"]
    /\ key' = [key EXCEPT ![p] = NoKey]
    /\ held' = [held EXCEPT ![p] = "none"]
    /\ result' = [result EXCEPT ![p] = outcome]
    /\ call' = [call EXCEPT ![p] = IF outcome = "none" THEN "none" ELSE @]
    /\ UNCHANGED calledDuring

ReleaseWrite(p) ==
    /\ pc[p] = "txn_commit"
    /\ LeaveScope(p, "none")
    /\ UNCHANGED <<store, rest>>

\* An exception raised inside the transaction scope is thrown into the
\* generator at the yield: path.unlink() is skipped, the lock is released
\* and the exception reaches the caller.
markerAfterExceptionMutant(k) == [pending EXCEPT ![k] = FALSE]

markerAfterException(k) == pending

AbortTransaction(p) ==
    /\ pc[p] = "txn"
    /\ LeaveScope(p, "raised")
    /\ pending' = markerAfterException(key[p])
    /\ UNCHANGED <<dirs, files, dataset_store, rest>>

\* The paths a caller gives to store_local_file: no file, a file outside
\* the store, or a file in the record directory of the transaction's own
\* key.
LocalPaths == {"missing", "outside", "record"}

\* store_local_file(path, new_filename) copies only when the path is an
\* existing file, with shutil.copy2 to <db>/<name> or, with a new_filename,
\* to <db>/<name>/<new_filename>.  Copying a file of the record directory
\* without new_filename is copying it onto itself: copy2 raises
\* SameFileError, which leaves the scope as every exception does.
StoreLocalFile(p) ==
    /\ pc[p] = "txn"
    /\ \E path \in LocalPaths, new_filename \in BOOLEAN :
           IF path = "missing"
           THEN UNCHANGED vars
           ELSE IF path = "outside" \/ new_filename
           THEN /\ path = "record" => files[key[p]] # {}
                /\ WriteFile(p, "local")
           ELSE /\ files[key[p]] # {}
                /\ LeaveScope(p, "SameFileError")
                /\ pending' = markerAfterException(key[p])
                /\ UNCHANGED <<dirs, files, dataset_store, rest>>

\* The snapshot scope exits, cleanly or by an exception.
ExitSnapshot(p) ==
    /\ pc[p] = "snap"
    /\ LeaveScope(p, "none")
    /\ UNCHANGED <<store, rest>>

\* The process dies inside a call or a scope: the operating system closes
\* its file descriptors, which releases its lock; the files stay as they
\* are.  key[p] keeps the key of the transaction scope p died in.
Crash(p) ==
    /\ pc[p] \notin {"idle", "dead"}
    /\ pc' = [pc EXCEPT ![p] = "dead"]
    /\ key' = [key EXCEPT ![p] = IF pc[p] = "txn" THEN @ ELSE NoKey]
    /\ held' = [held EXCEPT ![p] = "none"]
    /\ result' = [result EXCEPT ![p] = "none"]
    /\ calledDuring' = [calledDuring EXCEPT ![p] = "none"]
    /\ call' = [call EXCEPT ![p] = "none"]
    /\ UNCHANGED <<store, rest>>

----------------------------------------------------------------------------
\* The steps of process p on the keys K: the two context managers, with
\* store_model as the body of a transaction scope.
Step(p, K, locking) ==
    \/ \E k \in K : CallTransaction(p, k)
    \/ \E k \in K : CallSnapshot(p, k)
    \/ AcquireWrite(p, locking)
    \/ AcquireRead(p, locking)
    \/ StoreModel(p, OwnData(key[p]), OwnInfo(key[p]))
    \/ Commit(p)
    \/ ReleaseWrite(p)
    \/ AbortTransaction(p)
    \/ Retrieve(p)
    \/ ExitSnapshot(p)
    \/ Crash(p)

\* Several processes on several keys of one store.
Next == \E p \in Procs : Step(p, Keys, TRUE)

Spec == Init /\ [][Next]_vars

\* Several processes on one record, every store_* method in use.
OneRecord == {"m1"}

NextOneRecord ==
    \E p \in Procs :
        \/ Step(p, OneRecord, TRUE)
        \/ StoreMetadata(p)
        \/ StoreModelfitResults(p)
        \/ StoreLocalFile(p)

SpecOneRecord == Init /\ [][NextOneRecord]_vars

\* The same store with a lock file that excludes nobody: what the PENDING
\* marker guarantees on its own.  Every behaviour of Spec is one of
\* SpecMarkerOnly.
NextMarkerOnly == \E p \in Procs : Step(p, Keys, FALSE)

SpecMarkerOnly == Init /\ [][NextMarkerOnly]_vars

\* `with db.transaction(m) as txn:` leaves txn bound when the with statement
\* is left: the caller still holds the transaction object of the scope that
\* has exited.
ExitKeepingObject(p) ==
    /\ pc[p] = "txn_commit"
    /\ LeaveScope(p, "none")
    /\ txnobj' = [txnobj EXCEPT ![p] = key[p]]
    /\ UNCHANGED <<store, links, last, asked, ctxfiles, tree, storing, ext>>

\* store_metadata called on a transaction object the caller kept: the
\* method looks at neither the marker nor the lock, it writes
\* <db>/<name>/.pharmpy/metadata.json.
StoreMetadataAfterScope(p) ==
    /\ pc[p] = "idle"
    /\ txnobj[p] # NoKey
    /\ files' = [files EXCEPT ![txnobj[p]] = @ \cup {"metadata"}]
    /\ UNCHANGED <<procs, pending, dirs, dataset_store, rest>>

\* One record, and callers that go on using a transaction object after the
\* with statement.
NextKeptObject ==
    \E p \in Procs :
        \/ Step(p, OneRecord, TRUE)
        \/ ExitKeepingObject(p)
        \/ StoreMetadataAfterScope(p)

SpecKeptObject == Init /\ [][NextKeptObject]_vars

\* Transactions that commit, storing models with any of the datasets and
\* datainfos under any of the names.  The exclusive lock lets one store_model
\* run at a time: one caller makes them all.
Storer == CHOOSE p \in Procs : TRUE

NextDataset ==
    \E p \in {Storer} :
        \/ \E k \in Keys : CallTransaction(p, k)
        \/ AcquireWrite(p, TRUE)
        \/ \E d \in Data, di \in Infos : StoreModel(p, d, di)
        \/ Commit(p)
        \/ ReleaseWrite(p)

SpecDataset == Init /\ [][NextDataset]_vars

----------------------------------------------------------------------------
\* store_model step by step: the files of the dataset store are written one
\* after the other, and the call can raise, or its process die, between any
\* two of them.

\* The content of a dataset file whose writing was cut short.
Partial == 0

\* A caller inside store_model, past the loop over the index.
InStoreModel(p) == pc[p] \in {"sm_index", "sm_csv", "sm_datainfo"}

\* The index files under the hash of d whose <f>.datainfo does not exist:
\* DataInfo.read_json raises FileNotFoundError when the loop comes to one.
Unreadable(d) ==
    {f \in Keys : <<hash_df_fs(d), f>> \in index /\ f \notin DOMAIN sidecar}

\* The index files the loop breaks at: the datainfo read equals the model's
\* and the dataset read equals d.
Matching(d, di) ==
    {f \in Keys : /\ <<hash_df_fs(d), f>> \in index
                  /\ f \in DOMAIN sidecar /\ sidecar[f] = di
                  /\ f \in DOMAIN csv /\ csv[f] = d}

\* The loop comes to a file that qualifies before it comes to an index file
\* without datainfo (iterdir() lists in no particular order): the model
\* points to that file and is written into the record.
ReuseDataset(p, d, di) ==
    /\ pc[p] = "txn"
    /\ \E f \in Matching(d, di) :
           model' = write(model, key[p], [data |-> d, path |-> f])
    /\ files' = [files EXCEPT ![key[p]] = @ \cup {"model"}]
    /\ UNCHANGED <<procs, pending, dirs, csv, sidecar, index, rest>>

\* The loop comes to an index file without datainfo: FileNotFoundError
\* leaves store_model and the transaction scope.
LookupFails(p, d) ==
    /\ pc[p] = "txn"
    /\ Unreadable(d) # {}
    /\ LeaveScope(p, "FileNotFoundError")
    /\ pending' = markerAfterException(key[p])
    /\ UNCHANGED <<dirs, files, dataset_store, rest>>

\* No file qualifies: the else of the loop starts with index_path.touch().
TouchIndex(p, d, di) ==
    /\ pc[p] = "txn"
    /\ Matching(d, di) = {} /\ Unreadable(d) = {}
    /\ index' = touch_index(hash_df_fs(d), key[p])
    /\ storing' = [storing EXCEPT ![p] = <<d, di>>]
    /\ pc' = [pc EXCEPT ![p] = "sm_index"]
    /\ UNCHANGED <<call, key, held, result, calledDuring, pending, dirs,
                   files, csv, sidecar, model, txnobj, links, last, asked,
                   ctxfiles, tree, ext>>

\* write_csv(model, path=data_path, force=True).
WriteCsv(p) ==
    /\ pc[p] = "sm_index"
    /\ csv' = write_csv(key[p], storing[p][1])
    /\ pc' = [pc EXCEPT ![p] = "sm_csv"]
    /\ UNCHANGED <<call, key, held, result, calledDuring, pending, dirs,
                   files, sidecar, index, model, rest>>

\* model.datainfo.to_json(<name>.datainfo), written last.
WriteDatainfo(p) ==
    /\ pc[p] = "sm_csv"
    /\ sidecar' = write(sidecar, key[p], storing[p][2])
    /\ pc' = [pc EXCEPT ![p] = "sm_datainfo"]
    /\ UNCHANGED <<call, key, held, result, calledDuring, pending, dirs,
                   files, csv, index, model, rest>>

\* write_model: the model file of the record, pointing to <name>.csv.
WriteModel(p) ==
    /\ pc[p] = "sm_datainfo"
    /\ model' = write(model, key[p],
                      [data |-> storing[p][1], path |-> key[p]])
    /\ files' = [files EXCEPT ![key[p]] = @ \cup {"model"}]
    /\ storing' = [storing EXCEPT ![p] = NoCall]
    /\ pc' = [pc EXCEPT ![p] = "txn"]
    /\ UNCHANGED <<call, key, held, result, calledDuring, pending, dirs,
                   csv, sidecar, index, txnobj, links, last, asked,
                   ctxfiles, tree, ext>>

\* An exception inside store_model (an I/O error, an interrupt) leaves the
\* transaction scope as any exception in the scope does.
RaiseInStoreModel(p) ==
    /\ InStoreModel(p)
    /\ LeaveScope(p, "raised")
    /\ pending' = markerAfterException(key[p])
    /\ storing' = [storing EXCEPT ![p] = NoCall]
    /\ UNCHANGED <<dirs, files, dataset_store, txnobj, links, last, asked,
                   ctxfiles, tree, ext>>

\* The process dies while write_csv is writing: part of the file is there.
DieInWriteCsv(p) ==
    /\ pc[p] = "sm_index"
    /\ csv' = write(csv, key[p], Partial)
    /\ pc' = [pc EXCEPT ![p] = "dead"]
    /\ held' = [held EXCEPT ![p] = "none"]
    /\ result' = [result EXCEPT ![p] = "none"]
    /\ call' = [call EXCEPT ![p] = "none"]
    /\ storing' = [storing EXCEPT ![p] = NoCall]
    /\ UNCHANGED <<key, calledDuring, pending, dirs, files, sidecar, index,
                   model, txnobj, links, last, asked, ctxfiles, tree, ext>>

\* Callers that store the model of their key, in transactions that commit,
\* raise or die.
NextStoreModel ==
    \E p \in Procs :
        \/ \E k \in Keys : CallTransaction(p, k)
        \/ AcquireWrite(p, TRUE)
        \/ ReuseDataset(p, OwnData(key[p]), OwnInfo(key[p]))
        \/ LookupFails(p, OwnData(key[p]))
        \/ TouchIndex(p, OwnData(key[p]), OwnInfo(key[p]))
        \/ WriteCsv(p)
        \/ WriteDatainfo(p)
        \/ WriteModel(p)
        \/ RaiseInStoreModel(p)
        \/ DieInWriteCsv(p)
        \/ Crash(p)
        \/ Commit(p)
        \/ ReleaseWrite(p)

SpecStoreModel == Init /\ [][NextStoreModel]_vars

----------------------------------------------------------------------------
\* Reading a model back.  store_model writes the model file
\* <db>/<name>/<name><filename_extension>; record k has it when "model" is
\* among files[k], with the extension ext[k].

\* The extensions _find_full_model_path looks for, in this order.
extensions == <<".mod", ".ctl">>

\* <db>/<k>/<k><e> is a file.
is_model_file(k, e) == "model" \in files[k] /\ ext[k] = e

\* _find_full_model_path: the first of the extensions with which the model
\* file exists, KeyError when it exists with none of them.
_find_full_model_path(k) ==
    IF \E i \in DOMAIN extensions : is_model_file(k, extensions[i])
    THEN extensions[CHOOSE i \in DOMAIN extensions :
                        /\ is_model_file(k, extensions[i])
                        /\ \A j \in 1..(i - 1) :
                               ~is_model_file(k, extensions[j])]
    ELSE "KeyError"

\* retrieve_model() in a snapshot scope.
RetrieveModel(p) ==
    /\ pc[p] = "snap"
    /\ call' = [call EXCEPT ![p] = "retrieve_model"]
    /\ result' = [result EXCEPT ![p] =
                      IF _find_full_model_path(key[p]) = "KeyError"
                      THEN "KeyError" ELSE "ok"]
    /\ UNCHANGED <<pc, key, held, calledDuring, store, rest>>

\* One caller that stores models of any format in transactions that
\* commit, and reads them back in snapshots.
InitFormats == InitStore /\ ext \in [Keys -> Extensions]

NextModelFile ==
    \E p \in {Storer} :
        \/ \E k \in Keys : CallTransaction(p, k)
        \/ AcquireWrite(p, TRUE)
        \/ StoreModel(p, OwnData(key[p]), OwnInfo(key[p]))
        \/ Commit(p)
        \/ ReleaseWrite(p)
        \/ \E k \in Keys : CallSnapshot(p, k)
        \/ AcquireRead(p, TRUE)
        \/ RetrieveModel(p)
        \/ ExitSnapshot(p)

SpecModelFile == InitFormats /\ [][NextModelFile]_vars

----------------------------------------------------------------------------
\* LocalDirectoryContext: the names of models.  Every context of the tree
\* uses the model database of the top-level context.

\* _models_path: the name links of context c are the symlinks in its own
\* directory <c>/models.
_models_pathTop(c) == Root

_models_path(c) == c

\* retrieve_key, up to the digest: symlink_path.resolve() follows the link
\* <c>/models/<n> to the record directory it points to, whose name is the
\* digest; a path that is no link resolves to itself and KeyError is raised.
retrieve_key(c, n) ==
    IF links[_models_path(c)][n] = NoKey
    THEN "KeyError"
    ELSE links[_models_path(c)][n]

\* retrieve_name: the loop over <c>/models returns the first link, in the
\* order of iterdir(), that resolves to the record directory of k.  The set
\* of the names it can return; KeyError is raised when it is empty.
retrieve_nameAnyLink(c, k) ==
    {n \in Names : links[_models_path(c)][n] # NoKey}

retrieve_name(c, k) == {n \in Names : links[_models_path(c)][n] = k}

\* store_key that does not look for the record directory.
StoreKeyAnyKey(p, c, n, k) ==
    /\ pc[p] = "idle"
    /\ last' = <<c, n, k>>
    /\ IF links[_models_path(c)][n] = NoKey
       THEN links' = [links EXCEPT ![_models_path(c)][n] = k]
       ELSE UNCHANGED links
    /\ asked' = NoCall
    /\ UNCHANGED <<procs, store, txnobj, ctxfiles, tree, storing, ext>>

\* store_key(name, key): the symlink is created only if nothing exists at
\* <c>/models/<name> and the record directory <db>/<key> exists; otherwise
\* the call does nothing and returns normally.
StoreKey(p, c, n, k) ==
    /\ pc[p] = "idle"
    /\ last' = <<c, n, k>>
    /\ IF links[_models_path(c)][n] = NoKey /\ k \in dirs
       THEN links' = [links EXCEPT ![_models_path(c)][n] = k]
       ELSE UNCHANGED links
    /\ asked' = NoCall
    /\ UNCHANGED <<procs, store, txnobj, ctxfiles, tree, storing, ext>>

\* retrieve_key(name): KeyError for a name without link; otherwise the key
\* is read inside `with db.snapshot(digest) as txn`, that is after the first
\* lines of snapshot(), the shared lock and the check of the marker
\* (AcquireRead), and returned when the scope is left (ExitSnapshot).
RetrieveKey(p, c, n) ==
    IF retrieve_key(c, n) = "KeyError"
    THEN /\ pc[p] = "idle"
         /\ call' = [call EXCEPT ![p] = "retrieve_key"]
         /\ result' = [result EXCEPT ![p] = "KeyError"]
         /\ UNCHANGED <<pc, key, held, calledDuring, store, rest>>
    ELSE EnterCall(p, retrieve_key(c, n), "retrieve_key", "snap_lock")

\* retrieve_name(key) returns a name or raises KeyError.
RetrieveName(p, c, k) ==
    /\ pc[p] = "idle"
    /\ call' = [call EXCEPT ![p] = "retrieve_name"]
    /\ \E r \in (IF retrieve_name(c, k) = {} THEN {"KeyError"}
                                            ELSE retrieve_name(c, k)) :
           result' = [result EXCEPT ![p] = r]
    /\ asked' = <<c, k>>
    /\ last' = NoCall
    /\ UNCHANGED <<pc, key, held, calledDuring, store, txnobj, links,
                   ctxfiles, tree, storing, ext>>

\* One caller that stores records, in transactions that commit or raise,
\* and names them in the two contexts.
NextContext ==
    \E p \in {Storer} :
        \/ \E k \in Keys : CallTransaction(p, k)
        \/ AcquireWrite(p, TRUE)
        \/ Commit(p)
        \/ ReleaseWrite(p)
        \/ AbortTransaction(p)
        \/ \E c \in Contexts, n \in Names, k \in Keys : StoreKey(p, c, n, k)
        \/ \E c \in Contexts, n \in Names : RetrieveKey(p, c, n)
        \/ AcquireRead(p, TRUE)
        \/ ExitSnapshot(p)
        \/ \E c \in Contexts, k \in Keys : RetrieveName(p, c, k)

SpecContext == Init /\ [][NextContext]_vars

----------------------------------------------------------------------------
\* The files of a context tree (LocalDirectoryContext): the log of the tree
\* <top>/log.csv and each context's <c>/annotations, with their lock files.

\* self.path of a context: <top>/subcontexts/<name>/subcontexts/<name>...
RECURSIVE path(_)
path(c) ==
    IF Len(c) = 1 THEN c
    ELSE path(SubSeq(c, 1, Len(c) - 1)) \o <<"subcontexts", c[Len(c)]>>

\* context_path: the parts of self.path relative to the parent of the top
\* path, every second one of them ([0::2]); joined by '/' in the code.
context_path(c) ==
    [i \in 1..((Len(path(c)) + 1) \div 2) |-> path(c)[2 * i - 1]]

\* str.count('/') of a context path.
count(cp) == Len(cp) - 1

Levels == {"all", "lower", "current"}

\* retrieve_log(level) on context c: the rows of the log file, filtered by
\* the number of '/' in their path column.
retrieve_logStrictlyLower(c, level) ==
    LET curlevel == count(context_path(c))
    IN  IF level = "lower"
        THEN SelectSeq(log, LAMBDA r : count(r.path) > curlevel)
        ELSE IF level = "current"
        THEN SelectSeq(log, LAMBDA r : count(r.path) = curlevel)
        ELSE log

retrieve_log(c, level) ==
    LET curlevel == count(context_path(c))
    IN  IF level = "lower"
        THEN SelectSeq(log, LAMBDA r : count(r.path) >= curlevel)
        ELSE IF level = "current"
        THEN SelectSeq(log, LAMBDA r : count(r.path) = curlevel)
        ELSE log

LogOps == {"store_message", "retrieve_log"}
ReadOps == {"retrieve_log", "retrieve_annotation"}

\* The lock file of the file p's call works on, path.with_suffix('.lock'):
\* <top>/log.lock for the log, <c>/annotations.lock for annotations.
lock_pathOneFile(p) == Root \o <<"log.lock">>

lock_path(p) ==
    IF call[p] \in LogOps THEN Root \o <<"log.lock">>
    ELSE path(ctxarg[p]) \o <<"annotations.lock">>

\* path_lock on the lock file of p's call.
file_lock(p, shared) ==
    \A q \in Procs \ {p} :
        (fheld[q] # "none" /\ lock_path(q) = lock_path(p))
            => (shared /\ fheld[q] = "shared")

\* _read_lock(path) / _write_lock(path) of the context.
context_read_lock(p) == file_lock(p, TRUE)

context_write_lock(p) == file_lock(p, FALSE)

\* p calls a method of context c that works on a locked file.
FileCall(p, c, op) ==
    /\ pc[p] = "idle"
    /\ pc' = [pc EXCEPT ![p] = "file_lock"]
    /\ call' = [call EXCEPT ![p] = op]
    /\ ctxarg' = [ctxarg EXCEPT ![p] = c]
    /\ UNCHANGED <<elsewhere, log, logfile, seen, notes, noted, stored, fheld,
                   times>>

\* p obtains the lock of its file.
AcquireFile(p) ==
    /\ pc[p] = "file_lock"
    /\ IF call[p] \in ReadOps THEN context_read_lock(p)
                              ELSE context_write_lock(p)
    /\ pc' = [pc EXCEPT ![p] = "file"]
    /\ fheld' = [fheld EXCEPT ![p] = IF call[p] \in ReadOps THEN "shared"
                                                            ELSE "exclusive"]
    /\ UNCHANGED <<call, elsewhere, log, logfile, seen, notes, noted, stored,
                   ctxarg,
                   logtime>>

\* p leaves the `with` of its lock: the call returns.
ReleaseFile(p) ==
    /\ pc' = [pc EXCEPT ![p] = "idle"]
    /\ call' = [call EXCEPT ![p] = "none"]
    /\ fheld' = [fheld EXCEPT ![p] = "none"]
    /\ ctxarg' = [ctxarg EXCEPT ![p] = NoCall]

\* LocalDirectoryContext(name, ref) up to the test in _init_log: _init_path
\* makes the directory of the context if there is none, and _init_log looks
\* whether <top>/log.csv is a file, and holds no lock.
Construct(p, c) ==
    /\ pc[p] = "idle"
    /\ ctxdirs' = ctxdirs \cup {path(c)}
    /\ IF logfile
       THEN UNCHANGED <<pc, call, ctxarg, made>>
       ELSE /\ pc' = [pc EXCEPT ![p] = "init_log"]
            /\ call' = [call EXCEPT ![p] = "construct"]
            /\ ctxarg' = [ctxarg EXCEPT ![p] = c]
            /\ made' = [made EXCEPT ![p] = path(c) \notin ctxdirs]
    /\ UNCHANGED <<key, held, result, calledDuring, store, txnobj, links,
                   last, asked, obj, storing, ext, log, logfile, seen, notes,
                   noted, stored, fheld, logtime>>

\* ... and when it saw none, opens it with mode 'w' and writes the header.
InitLog(p) ==
    /\ pc[p] = "init_log"
    /\ logfile' = TRUE
    /\ log' = <<>>
    /\ seen' = NoCall
    /\ pc' = [pc EXCEPT ![p] = "idle"]
    /\ call' = [call EXCEPT ![p] = "none"]
    /\ ctxarg' = [ctxarg EXCEPT ![p] = NoCall]
    /\ times' = <<>>
    /\ made' = [made EXCEPT ![p] = FALSE]
    /\ UNCHANGED <<key, held, result, calledDuring, store, txnobj, links,
                   last, asked, tree, storing, ext, notes, noted, stored,
                   fheld, clock, stamp>>

\* The calls of store_message in progress.
Storing == {q \in Procs : call[q] = "store_message" /\ pc[q] # "idle"}

\* store_message through a context object of c, which exists once its
\* constructor has returned: the directory of c and the log file exist.
StoreMessage(p, c, date) ==
    /\ logfile /\ path(c) \in ctxdirs
    /\ Len(log) + Cardinality(Storing) < MaxLog
    /\ stamp' = [stamp EXCEPT ![p] = date]
    /\ FileCall(p, c, "store_message")
    /\ UNCHANGED clock

\* store_message, under the exclusive lock: open(log_path, 'a') and write
\* one line that starts with the context path.
AppendRow(p) ==
    /\ pc[p] = "file" /\ call[p] = "store_message"
    /\ log' = Append(log, [path |-> context_path(ctxarg[p])])
    /\ times' = Append(times, stamp[p])
    /\ stamp' = [stamp EXCEPT ![p] = 0]
    /\ seen' = NoCall
    /\ ReleaseFile(p)
    /\ UNCHANGED <<elsewhere, logfile, notes, noted, stored, clock>>

RetrieveLog(p, c) ==
    /\ logfile /\ path(c) \in ctxdirs
    /\ FileCall(p, c, "retrieve_log")
    /\ UNCHANGED <<clock, stamp>>

\* retrieve_log(level), under the shared lock: read_csv and the filter.
ReadLog(p, level) ==
    /\ pc[p] = "file" /\ call[p] = "retrieve_log"
    /\ seen' = <<ctxarg[p], level, retrieve_log(ctxarg[p], level)>>
    /\ ReleaseFile(p)
    /\ UNCHANGED <<elsewhere, log, logfile, notes, noted, stored, logtime>>

\* Processes that open contexts of one tree, log from them and read the log.
NextLog ==
    \E p \in Procs :
        \/ \E c \in Tree : Construct(p, c)
        \/ InitLog(p)
        \/ \E c \in Tree : StoreMessage(p, c, 0)
        \/ \E c \in Tree : RetrieveLog(p, c)
        \/ AcquireFile(p)
        \/ AppendRow(p)
        \/ \E level \in Levels : ReadLog(p, level)

SpecLog == Init /\ [][NextLog]_vars

\* Time passes between one caller's reading of the clock and the next.
Tick ==
    /\ clock < MaxLog
    /\ clock' = clock + 1
    /\ UNCHANGED <<procs, store, txnobj, links, last, asked, tree, storing,
                   ext, log, logfile, seen, notes, noted, stored, ctxarg,
                   fheld, times, stamp, made>>

\* Processes that log from the top-level context, each call with the date
\* its caller has just read from the clock.
NextDates ==
    \/ Tick
    \/ \E p \in Procs :
           \/ Construct(p, Root)
           \/ InitLog(p)
           \/ StoreMessage(p, Root, clock)
           \/ AcquireFile(p)
           \/ AppendRow(p)

SpecDates == Init /\ [][NextDates]_vars

----------------------------------------------------------------------------
\* Moving in a context tree: every context object is made by the
\* constructor, from the path of its directory.

\* _init_top_path: walk up while the parent directory is called
\* "subcontexts".  The directory above the top-level context has another
\* name.
_init_top_pathOwn(pth) == pth

RECURSIVE _init_top_path(_)
_init_top_path(pth) ==
    IF Len(pth) >= 3 /\ pth[Len(pth) - 1] = "subcontexts"
    THEN _init_top_path(SubSeq(pth, 1, Len(pth) - 2))
    ELSE pth

\* _init_model_database and _log_path of a context object.
model_database(o) == o._top_path \o <<".modeldb">>

_log_path(o) == o._top_path \o <<"log.csv">>

\* LocalDirectoryContext(name, ref) for the directory pth = ref / name:
\* _init_path makes the directory, _init_top_path finds the top, and
\* _init_log makes the log file of the tree when there is none.
LocalDirectoryContext(p, pth) ==
    /\ obj' = [obj EXCEPT ![p] =
                   [path |-> pth, _top_path |-> _init_top_path(pth)]]
    /\ ctxdirs' = ctxdirs \cup {pth}
    /\ logfile' = TRUE
    /\ result' = [result EXCEPT ![p] = "ok"]
    /\ UNCHANGED <<pc, key, held, calledDuring, store, txnobj, links, last,
                   asked, log, seen, notes, noted, stored, ctxarg, fheld,
                   storing, ext, logtime, made>>

\* The call raises ValueError and changes nothing.
RaiseValueError(p) ==
    /\ result' = [result EXCEPT ![p] = "ValueError"]
    /\ UNCHANGED <<pc, key, held, calledDuring, store, txnobj, links, last,
                   asked, ctxfiles, tree, storing, ext>>

\* p opens the top-level context.
OpenTop(p) ==
    /\ pc[p] = "idle"
    /\ call' = [call EXCEPT ![p] = "construct"]
    /\ LocalDirectoryContext(p, path(Root))

\* create_subcontext(name) on the context p holds.
CreateSubcontext(p, n) ==
    /\ pc[p] = "idle" /\ obj[p] # NoObject
    /\ obj[p].path \o <<"subcontexts", n>> \in {path(c) : c \in Forest}
    /\ call' = [call EXCEPT ![p] = "create_subcontext"]
    /\ LocalDirectoryContext(p, obj[p].path \o <<"subcontexts", n>>)

\* get_subcontext that does not look for the directory.
GetSubcontextAny(p, n) ==
    /\ pc[p] = "idle" /\ obj[p] # NoObject
    /\ call' = [call EXCEPT ![p] = "get_subcontext"]
    /\ LocalDirectoryContext(p, obj[p].path \o <<"subcontexts", n>>)

\* get_subcontext(name): ValueError unless the directory exists.
GetSubcontext(p, n) ==
    /\ pc[p] = "idle" /\ obj[p] # NoObject
    /\ call' = [call EXCEPT ![p] = "get_subcontext"]
    /\ IF obj[p].path \o <<"subcontexts", n>> \in ctxdirs
       THEN LocalDirectoryContext(p, obj[p].path \o <<"subcontexts", n>>)
       ELSE RaiseValueError(p)

\* get_parent_context(): ValueError at the top-level context.
GetParentContext(p) ==
    /\ pc[p] = "idle" /\ obj[p] # NoObject
    /\ call' = [call EXCEPT ![p] = "get_parent_context"]
    /\ IF obj[p].path = obj[p]._top_path
       THEN RaiseValueError(p)
       ELSE LocalDirectoryContext(
                p, SubSeq(obj[p].path, 1, Len(obj[p].path) - 2))

NextTree ==
    \E p \in Procs :
        \/ OpenTop(p)
        \/ \E n \in SubNames : CreateSubcontext(p, n)
        \/ \E n \in SubNames : GetSubcontext(p, n)
        \/ GetParentContext(p)

SpecTree == Init /\ [][NextTree]_vars

----------------------------------------------------------------------------
\* The annotations file of a context: lines "<name> <text>\n".  Names and
\* texts are strings, modelled as sequences of characters; a line is kept
\* without the "\n" that ends it.
AnnNames == {<<"a">>, <<"b">>}
Texts == {<<"x">>, <<"z">>, <<"x", "\n", "y">>}
KeyError == <<"KeyError">>

\* The index of the first ch in s, 0 when there is none.
Find(s, ch) ==
    IF \E i \in 1..Len(s) : s[i] = ch
    THEN CHOOSE i \in 1..Len(s) : s[i] = ch /\ \A j \in 1..(i - 1) : s[j] # ch
    ELSE 0

\* a = line.split(" ", 1) of a line as readlines() gives it, with its "\n":
\* a[0], and a[1][:-1].
split_name(line) ==
    IF Find(line, " ") = 0 THEN line \o <<"\n">>
    ELSE SubSeq(line, 1, Find(line, " ") - 1)

split_text(line) == SubSeq(line, Find(line, " ") + 1, Len(line))

\* f'{name} {annotation}\n', without the final "\n".
format_line(name, text) == name \o <<" ">> \o text

\* The lines a written string is read as.
RECURSIVE splitlines(_)
splitlines(str) ==
    IF Find(str, "\n") = 0 THEN <<str>>
    ELSE <<SubSeq(str, 1, Find(str, "\n") - 1)>>
             \o splitlines(SubSeq(str, Find(str, "\n") + 1, Len(str)))

\* fh.writelines(lines): the lines the file has afterwards.
RECURSIVE writelines(_)
writelines(lines) ==
    IF lines = <<>> THEN <<>>
    ELSE splitlines(Head(lines)) \o writelines(Tail(lines))

\* store_annotation(name, annotation) on context c: the lines of the file
\* afterwards.  Every line whose first word is name is replaced; a line is
\* appended when there was none.
store_annotationAppend(c, name, text) ==
    writelines(Append(notes[c], format_line(name, text)))

store_annotation(c, name, text) ==
    LET lines == notes[c]
        found == \E i \in 1..Len(lines) : split_name(lines[i]) = name
        new_lines == [i \in 1..Len(lines) |->
                         IF split_name(lines[i]) = name
                         THEN format_line(name, text) ELSE lines[i]]
    IN  writelines(IF found THEN new_lines
                            ELSE Append(lines, format_line(name, text)))

\* retrieve_annotation(name) on context c: the text of the first line whose
\* first word is name, KeyError when there is none.
retrieve_annotation(c, name) ==
    LET hits == {i \in 1..Len(notes[c]) : split_name(notes[c][i]) = name}
    IN  IF hits = {} THEN KeyError
        ELSE split_text(notes[c][CHOOSE i \in hits : \A j \in hits : i <= j])

\* The context object the method is called on exists once its constructor
\* has returned: the directory of the context and the log file exist.
StoreAnnotation(p, c) ==
    /\ logfile /\ path(c) \in ctxdirs
    /\ FileCall(p, c, "store_annotation")
    /\ UNCHANGED <<clock, stamp>>

\* store_annotation, under the exclusive lock of the annotations file.
WriteNotes(p, name, text) ==
    /\ pc[p] = "file" /\ call[p] = "store_annotation"
    /\ Len(store_annotation(ctxarg[p], name, text)) <= MaxNotes
    /\ notes' = [notes EXCEPT ![ctxarg[p]] =
                     store_annotation(ctxarg[p], name, text)]
    /\ noted' = <<ctxarg[p], name, text>>
    /\ stored' = [stored EXCEPT
                      ![ctxarg[p]] = (name :> text) @@ stored[ctxarg[p]]]
    /\ ReleaseFile(p)
    /\ UNCHANGED <<elsewhere, log, logfile, seen, logtime>>

RetrieveAnnotation(p, c) ==
    /\ logfile /\ path(c) \in ctxdirs
    /\ FileCall(p, c, "retrieve_annotation")
    /\ UNCHANGED <<clock, stamp>>

\* retrieve_annotation, under the shared lock of the annotations file.
ReadNotes(p, name) ==
    /\ pc[p] = "file" /\ call[p] = "retrieve_annotation"
    /\ result' = [result EXCEPT ![p] =
                      IF retrieve_annotation(ctxarg[p], name) = KeyError
                      THEN "KeyError" ELSE "ok"]
    /\ ReleaseFile(p)
    /\ UNCHANGED <<key, held, calledDuring, store, txnobj, links,
                   last, asked, tree, storing, ext, log, logfile, seen, notes,
                   noted, stored, logtime, made>>

\* One caller that opens the two contexts, annotates them and reads the
\* annotations.
NextAnnotations ==
    \E p \in {Storer} :
        \/ \E c \in Contexts : Construct(p, c)
        \/ InitLog(p)
        \/ \E c \in Contexts : StoreAnnotation(p, c)
        \/ \E c \in Contexts : RetrieveAnnotation(p, c)
        \/ AcquireFile(p)
        \/ \E name \in AnnNames, text \in Texts : WriteNotes(p, name, text)
        \/ \E name \in AnnNames : ReadNotes(p, name)

SpecAnnotations == Init /\ [][NextAnnotations]_vars

\* Processes that annotate one context at the same time and read its
\* annotations.
NextNotes ==
    \E p \in Procs :
        \/ Construct(p, Root)
        \/ InitLog(p)
        \/ StoreAnnotation(p, Root)
        \/ RetrieveAnnotation(p, Root)
        \/ AcquireFile(p)
        \/ \E name \in AnnNames, text \in Texts : WriteNotes(p, name, text)
        \/ \E name \in AnnNames : ReadNotes(p, name)

SpecNotes == Init /\ [][NextNotes]_vars

\* The scopes one caller opens on a record of the store.
Scopes(p) ==
    \/ \E k \in OneRecord : CallTransaction(p, k)
    \/ \E k \in OneRecord : CallSnapshot(p, k)
    \/ AcquireWrite(p, TRUE)
    \/ AcquireRead(p, TRUE)
    \/ Commit(p)
    \/ ReleaseWrite(p)
    \/ ExitSnapshot(p)

\* One caller that opens transaction and snapshot scopes on a record of the
\* store and logs between them, and processes that log and annotate in the
\* contexts of the tree.
NextFiles ==
    \/ Scopes(Storer)
    \/ \E p \in Procs :
        \/ \E c \in Contexts : Construct(p, c)
        \/ InitLog(p)
        \/ StoreMessage(p, Root, 0)
        \/ AcquireFile(p)
        \/ AppendRow(p)
    \/ \E p \in Procs \ {Storer} :
        \/ RetrieveLog(p, Root)
        \/ \E c \in Contexts : StoreAnnotation(p, c)
        \/ \E c \in Contexts : RetrieveAnnotation(p, c)
        \/ ReadLog(p, "all")
        \/ WriteNotes(p, <<"a">>, <<"x">>)
        \/ ReadNotes(p, <<"a">>)

SpecFiles == Init /\ [][NextFiles]_vars

----------------------------------------------------------------------------
\* Fair scheduling: callers open scopes on the keys of the store, a scope
\* that is open is left (by commit, by an exception or by the end of the
\* with statement), and a caller that stays able to take the lock takes it.
\* path_lock keeps no queue of waiters: a waiter takes the lock in a step of
\* its own, when it finds the lock obtainable.
NextFair ==
    \E p \in Procs :
        \/ \E k \in Keys : CallTransaction(p, k)
        \/ \E k \in Keys : CallSnapshot(p, k)
        \/ AcquireWrite(p, TRUE)
        \/ AcquireRead(p, TRUE)
        \/ Commit(p)
        \/ ReleaseWrite(p)
        \/ AbortTransaction(p)
        \/ ExitSnapshot(p)

Fairness ==
    \A p \in Procs :
        /\ WF_vars(AcquireWrite(p, TRUE))
        /\ WF_vars(AcquireRead(p, TRUE))
        /\ WF_vars(Commit(p))
        /\ WF_vars(ReleaseWrite(p))
        /\ WF_vars(ExitSnapshot(p))

SpecFair == Init /\ [][NextFair]_vars /\ Fairness

----------------------------------------------------------------------------
\* Steps and states the properties below speak of.

\* p's call returns in this step: it is admitted or it fails.
Returns(p) == Waiting(p) /\ pc'[p] \notin {pc[p], "dead"}
Fails(p) == Returns(p) /\ pc'[p] = "idle"
                       /\ result'[p] = "PendingTransactionError"
Admitted(p) == Returns(p) /\ InScope(p)' /\ result'[p] = "ok"

\* The marker of k is there and no transaction scope on k is open: it was
\* left behind.
MarkerLeft(k) == pending[k] /\ \A q \in Procs : ~(pc[q] = "txn" /\ key[q] = k)

\* A process died inside its transaction scope on k.
DiedIn(k) == \E q \in Procs : pc[q] = "dead" /\ key[q] = k

----------------------------------------------------------------------------
\* C1: when the scope of transaction() on key k exits through an exception
\* (after any subset of the store_* calls), the PENDING marker of k is still
\* there; it then stays for ever, every later transaction() and snapshot() on
\* k raises PendingTransactionError, and no snapshot scope is open on k
\* while the marker is there, so the partial record is never read.
C1_ExceptionLeavesMarker ==
    /\ [](\A k \in Keys : pending[k] =>
            \A p \in Procs : ~(InSnap(p) /\ key[p] = k))
    /\ [][\A p \in Procs : \A k \in Keys :
            /\ (pc[p] = "txn" /\ key[p] = k /\ pc'[p] = "idle")
                   => MarkerLeft(k)'
            /\ MarkerLeft(k) => MarkerLeft(k)'
            /\ (MarkerLeft(k) /\ key[p] = k /\ Returns(p)) => Fails(p)
         ]_vars

\* A scope on m1 raised after writing part of the record, and a later
\* snapshot("m1") failed.
C1_Witness ==
    \E p, q \in Procs :
        /\ result[p] = "raised"
        /\ MarkerLeft("m1")
        /\ files["m1"] \notin {{}, FileKinds}
        /\ call[q] = "snapshot"
        /\ result[q] = "PendingTransactionError"

\* C2: while a transaction scope is open (from the creation of its marker
\* to the release of the lock) it holds the database lock exclusively and no
\* other transaction scope and no snapshot scope is open in the store,
\* whatever their keys.
C2_TransactionExcludesAll ==
    \A p \in Procs :
        InTxn(p) =>
            /\ held[p] = "exclusive"
            /\ \A q \in Procs \ {p} : ~InScope(q) /\ held[q] = "none"

\* A transaction scope is open on m1 while a call on m2 waits.
C2_Witness ==
    \E p, q \in Procs :
        /\ pc[p] = "txn" /\ key[p] = "m1"
        /\ Waiting(q) /\ key[q] = "m2"

\* C3: transaction() on a key whose PENDING marker exists when the call
\* checks it raises PendingTransactionError, yields no transaction object,
\* and leaves the markers, the record files and the dataset store as they
\* were; so does its mkdir before the lock.
C3_PendingRejected ==
    [][\A p \in Procs :
         /\ (pc[p] = "txn_lock" /\ pending[key[p]] /\ Returns(p))
                => (Fails(p) /\ UNCHANGED store)
         /\ (pc[p] = "idle" /\ pc'[p] = "txn_lock" /\ pending[key'[p]])
                => UNCHANGED store
      ]_vars

\* transaction("m1") failed on a record that holds files.
C3_Witness ==
    \E p \in Procs :
        /\ call[p] = "transaction"
        /\ result[p] = "PendingTransactionError"
        /\ pending["m1"]
        /\ "model" \in files["m1"]

\* C4: on a clean exit the marker of k is removed, after the last store_*
\* call of the scope and while the exclusive lock is still held; a call on k
\* that finds no marker when it returns is admitted.
C4_CommitRemovesMarker ==
    /\ [](\A p \in Procs :
            pc[p] = "txn_commit" =>
                /\ ~pending[key[p]]
                /\ held[p] = "exclusive"
                /\ \A q \in Procs \ {p} : held[q] = "none")
    /\ [][\A p \in Procs :
            /\ (pc[p] = "txn" /\ pc'[p] = "txn_commit")
                   => (pending[key[p]] /\ ~pending'[key[p]])
            /\ pc[p] = "txn_commit"
                   => (files' = files /\ dataset_store' = dataset_store)
            /\ (pc[p] = "txn_commit" /\ pc'[p] = "idle")
                   => (~pending'[key[p]] /\ held'[p] = "none")
            /\ (Returns(p) /\ ~pending[key[p]]) => Admitted(p)
         ]_vars

\* A snapshot of m1 is open after a transaction stored all four kinds of
\* file and committed.
C4_Witness ==
    \E p \in Procs :
        /\ pc[p] = "snap" /\ key[p] = "m1"
        /\ files["m1"] = FileKinds
        /\ ~pending["m1"]

----------------------------------------------------------------------------
\* C5, as stated: snapshot(k) called while a transaction scope is open in
\* the store, on k or on another key, fails with PendingTransactionError;
\* called when none is open and k has no marker, it succeeds.
C5_Original ==
    [][\A p \in Procs :
         /\ (pc[p] = "snap_lock" /\ calledDuring[p] # "none" /\ Returns(p))
                => Fails(p)
         /\ (pc[p] = "snap_lock" /\ calledDuring[p] = "none"
                /\ ~pending[key[p]] /\ Returns(p))
                => Admitted(p)
      ]_vars

\* C5, amended: snapshot(k) returns only when no transaction scope is open
\* in the store (it waits for the shared lock); when it returns it fails
\* with PendingTransactionError exactly if the marker of k is there, which
\* it is not after a clean exit of the transaction on k.
C5_SnapshotWaitsForTransaction ==
    [][\A p \in Procs :
         /\ (pc[p] = "snap_lock" /\ Returns(p)) =>
                /\ \A q \in Procs : ~InTxn(q)
                /\ Fails(p) <=> pending[key[p]]
                /\ Admitted(p) <=> ~pending[key[p]]
         /\ (pc[p] = "txn_commit" /\ pc'[p] = "idle") => ~pending'[key[p]]
      ]_vars

\* A snapshot called while a transaction scope was open on its key has
\* waited until that scope committed, and is about to be admitted.
C5_Witness ==
    \E p \in Procs :
        /\ pc[p] = "snap_lock"
        /\ calledDuring[p] = "same"
        /\ ~pending[key[p]]
        /\ "model" \in files[key[p]]
        /\ \A q \in Procs : ~InTxn(q)

C7_DeathLeavesMarker ==
    /\ [](\A k \in Keys : DiedIn(k) => MarkerLeft(k))
    /\ [](\A p \in Procs : pc[p] = "dead" => held[p] = "none")
    /\ [][/\ \A p \in Procs :
               /\ (pc[p] = "txn" /\ pc'[p] = "dead")
                      => /\ held'[p] = "none"
                         /\ key'[p] = key[p]
                         /\ pending'[key[p]]
               /\ (Returns(p) /\ DiedIn(key[p])) => Fails(p)
            /\ \A k \in Keys : DiedIn(k) => (DiedIn(k)' /\ pending'[k])
         ]_vars

\* A process died in its scope on m1, and a transaction scope is open on m2.
C7_Witness ==
    \E q \in Procs :
        /\ DiedIn("m1")
        /\ pc[q] = "txn" /\ key[q] = "m2"

\* C8: a call on k2 made while a transaction scope is open on another key
\* k1 waits: it returns only when the lock is obtainable (for snapshot(), no
\* transaction scope open; for transaction(), no scope open at all), and it
\* is then admitted exactly if k2 has no marker.  While the lock is not
\* obtainable the call can neither fail nor be admitted; once it is, and k2
\* has no marker, the call can be admitted.
AcquireStep(p) == AcquireWrite(p, TRUE) \/ AcquireRead(p, TRUE)

LockObtainable(p) ==
    IF pc[p] = "txn_lock"
    THEN \A q \in Procs \ {p} : ~InScope(q)
    ELSE \A q \in Procs \ {p} : ~InTxn(q)

C8_OtherKeyWaits ==
    /\ [](\A p \in Procs :
            Waiting(p) =>
                /\ ~LockObtainable(p) => ~ENABLED AcquireStep(p)
                /\ (LockObtainable(p) /\ ~pending[key[p]])
                       => ENABLED (AcquireStep(p) /\ result'[p] = "ok"))
    /\ [][\A p \in Procs :
            /\ (Waiting(p) /\ Returns(p)) => LockObtainable(p)
            /\ (Waiting(p) /\ calledDuring[p] = "other" /\ Returns(p))
                   => (Admitted(p) <=> ~pending[key[p]])
         ]_vars

\* A snapshot of m2 was called while a transaction scope was open on m1;
\* that scope raised and left its marker, and the snapshot can be admitted.
C8_Witness ==
    \E p \in Procs :
        /\ pc[p] = "snap_lock" /\ key[p] = "m2"
        /\ calledDuring[p] = "other"
        /\ MarkerLeft("m1")
        /\ ~pending["m2"]
        /\ LockObtainable(p)

\* C9: a caller whose scope is not open holds no lock: not after a clean
\* exit, not after an exception in the scope, not after transaction() or
\* snapshot() failed with PendingTransactionError.  When no scope is open
\* the lock is obtainable in either mode.
C9_LockReleasedOnExit ==
    /\ \A p \in Procs : ~InScope(p) => held[p] = "none"
    /\ (\A p \in Procs : ~InScope(p)) =>
           \A q \in Procs : path_lock(q, FALSE) /\ path_lock(q, TRUE)

\* transaction() failed for one caller, who is idle, and another caller has
\* obtained the exclusive lock since.
C9_Witness ==
    \E p, q \in Procs :
        /\ pc[p] = "idle"
        /\ call[p] = "transaction"
        /\ result[p] = "PendingTransactionError"
        /\ pc[q] = "txn"

\* C10: with the marker as the only guard (a lock that excludes nobody): a
\* transaction scope whose body runs on k has the marker of k, no two such
\* scopes are on one key, and a transaction is admitted exactly by creating
\* the marker that was not there.
C10_MarkerAdmitsOne ==
    /\ [](\A p \in Procs : pc[p] = "txn" => pending[key[p]])
    /\ [](\A p, q \in Procs :
            (p # q /\ pc[p] = "txn" /\ pc[q] = "txn") => key[p] # key[q])
    /\ [][\A p \in Procs :
            (pc[p] = "txn_lock" /\ pc'[p] = "txn")
                => (~pending[key[p]] /\ pending'[key[p]])
         ]_vars

\* Without the lock, transaction scopes on m1 and on m2 are open together.
C10_Witness ==
    \E p, q \in Procs :
        /\ pc[p] = "txn" /\ key[p] = "m1"
        /\ pc[q] = "txn" /\ key[q] = "m2"

----------------------------------------------------------------------------
\* A step of p's snapshot(k): its first lines, its wait for the lock, its
\* admission or failure, the retrievals inside the scope and its exit.
SnapshotStep(p) ==
    /\ pc'[p] # pc[p]
    /\ pc[p] \in {"snap_lock", "snap"} \/ pc'[p] = "snap_lock"

\* C11: no step of snapshot(k) and no retrieve_* call changes the store:
\* the set of record directories (what list_models() returns), the files of
\* the records, the PENDING markers and the dataset store stay as they
\* were, also when k was never stored and when snapshot(k) fails.
C11_SnapshotChangesNothing ==
    [][\A p \in Procs :
         SnapshotStep(p) =>
             /\ list_models' = list_models
             /\ files' = files
             /\ pending' = pending
             /\ dataset_store' = dataset_store
      ]_vars

\* C12: every write to the files of a record and to the dataset store is
\* made by a caller whose transaction scope on that record is open: the
\* PENDING marker of the record is present and the caller holds the
\* database lock exclusively.  This includes store_* calls on a transaction
\* object whose scope has exited.
C12_WritesOnlyInTransaction ==
    [][(files' # files \/ dataset_store' # dataset_store) =>
          \E p \in Procs :
              /\ pc[p] = "txn"
              /\ held[p] = "exclusive"
              /\ pending[key[p]]
              /\ \A k \in Keys \ {key[p]} : files'[k] = files[k]
      ]_vars

----------------------------------------------------------------------------
\* The record k has a stored model and no PENDING marker: its last
\* transaction committed.
Committed(k) == k \in DOMAIN model /\ ~pending[k]

\* The physical dataset files with content d, and the files the hash index
\* refers to.
FilesWith(d) == {f \in DOMAIN csv : csv[f] = d}
Indexed == {f \in Keys : \E h \in {hash_df_fs(d) : d \in Data} : <<h, f>> \in index}

\* Every datainfo in the dataset store is the same one.
OneDatainfo == \A f, g \in DOMAIN sidecar : sidecar[f] = sidecar[g]

\* p's store_model writes the model file of its record in this step.
StoresModel(p) == pc[p] = "txn" /\ model' # model

\* C13 (stated for models that all carry one and the same datainfo): when
\* the committed models of two records were stored with equal datasets d,
\* the store holds exactly one physical file with content d and both models
\* point to it.
C13_OneFilePerDataset ==
    OneDatainfo =>
        \A k1, k2 \in Keys :
            (Committed(k1) /\ Committed(k2)
                 /\ model[k1].data = model[k2].data) =>
                /\ Cardinality(FilesWith(model[k1].data)) = 1
                /\ model[k1].path \in FilesWith(model[k1].data)
                /\ model[k2].path \in FilesWith(model[k1].data)

\* C14: no step of a transaction on k1 changes what a snapshot of a
\* committed record k2 # k1 yields: its files, its model file, and the
\* content of the dataset file its model points to.
C14_OtherRecordUntouched ==
    [][\A p \in Procs :
         pc[p] = "txn" =>
             \A k2 \in Keys \ {key[p]} :
                 Committed(k2) =>
                     /\ files'[k2] = files[k2]
                     /\ model'[k2] = model[k2]
                     /\ csv'[model[k2].path] = csv[model[k2].path]
      ]_vars

\* C15: when store_model has written the model file of a record, the file
\* the model points to exists in the dataset store and its content is the
\* dataset the model was stored with, whether the file was there already or
\* has just been written.
C15_PointerAfterStore ==
    [][\A p \in Procs :
         StoresModel(p) =>
             /\ model'[key[p]].path \in DOMAIN csv'
             /\ csv'[model'[key[p]].path] = model'[key[p]].data
      ]_vars

\* Two models are stored with the same dataset: m1 points to the file
\* written for it, m2 to that same file.
C15_Witness ==
    /\ Committed("m1") /\ Committed("m2")
    /\ model["m1"].path = "m1"
    /\ model["m2"].path = "m1"
    /\ DOMAIN csv = {"m1"}

\* The files indexed under the hash of d whose content is not d.
Colliding(d) ==
    {f \in Keys : <<hash_df_fs(d), f>> \in index /\ csv[f] # d}

\* C16: when a model is stored with a dataset d while the index holds, under
\* the hash of d, a file with another content and none with content d, then
\* d is written to the model's own file <name>.csv, that file is entered in
\* the index under the hash, the stored model points to it, and the
\* colliding files of other names keep their content.
C16_CollisionGetsOwnFile ==
    [][\A p \in Procs :
         StoresModel(p) =>
             LET k == key[p]
                 d == model'[k].data
                 h == hash_df_fs(d)
             IN  (Colliding(d) # {} /\ \A f \in Keys : <<h, f>> \in index
                                                         => csv[f] # d) =>
                     /\ model'[k].path = k
                     /\ csv'[k] = d
                     /\ <<h, k>> \in index'
                     /\ \A f \in Colliding(d) \ {k} : csv'[f] = csv[f]
      ]_vars

\* m1 and m2 were stored with different datasets of one hash: both files
\* are indexed under it and each model points to its own.
C16_Witness ==
    /\ Committed("m1") /\ Committed("m2")
    /\ model["m1"].path = "m1" /\ model["m2"].path = "m2"
    /\ csv["m1"] # csv["m2"]
    /\ hash_df_fs(csv["m1"]) = hash_df_fs(csv["m2"])
    /\ <<hash_df_fs(csv["m1"]), "m1">> \in index
    /\ <<hash_df_fs(csv["m1"]), "m2">> \in index

----------------------------------------------------------------------------
\* C18 (stated for names that have a link): after store_key(name, k) on a
\* context, retrieve_key(name) on that context resolves to k.
C18_StoredKeyIsRetrieved ==
    last # NoCall =>
        (retrieve_key(last[1], last[2]) # "KeyError"
             => retrieve_key(last[1], last[2]) = last[3])

\* C19: a step of store_key(name, k2) on a name that is linked to another
\* key k, for a k2 that has a record, overwrites the link: afterwards
\* retrieve_key(name) resolves to k2 and retrieve_name(k2) returns name.
C19_RelinkOverwrites ==
    [][\A c \in Contexts, n \in Names, k2 \in Keys :
         (/\ last' = <<c, n, k2>> /\ UNCHANGED <<procs, store>>
          /\ retrieve_key(c, n) \notin {"KeyError", k2}
          /\ k2 \in dirs)
             => /\ retrieve_key(c, n)' = k2
                /\ n \in retrieve_name(c, k2)'
      ]_vars

\* C20: a name of a context that has no link raises KeyError in
\* retrieve_key.  Every name of a fresh context does, and what
\* retrieve_key(name) yields on a context changes only in a step of
\* store_key on that context and for that name: not by store_key for
\* another name or on another context of the tree, and not by the database.
C20_UnlinkedNameRaises ==
    /\ \A c \in Contexts, n \in Names : retrieve_key(c, n) = "KeyError"
    /\ [][\A c \in Contexts, n \in Names :
            retrieve_key(c, n)' # retrieve_key(c, n)
                => \E k \in Keys : last' = <<c, n, k>>
         ]_vars

\* run1 is linked in the subcontext and run2 in the top-level context, and
\* retrieve_key has just raised KeyError: for run2 in the subcontext or for
\* run1 in the top-level context.
C20_Witness ==
    /\ retrieve_key(Sub, "run1") \in Keys
    /\ retrieve_key(Root, "run2") \in Keys
    /\ retrieve_key(Sub, "run2") = "KeyError"
    /\ retrieve_key(Root, "run1") = "KeyError"
    /\ \E p \in Procs : call[p] = "retrieve_key" /\ result[p] = "KeyError"

----------------------------------------------------------------------------
\* p's retrieve_name returns or raises in this step.
RetrieveNameStep(p) ==
    /\ call'[p] = "retrieve_name"
    /\ asked' # NoCall
    /\ pc'[p] = "idle" /\ pc[p] = "idle"
    /\ asked' # asked \/ result'[p] # result[p] \/ call[p] # call'[p]

C22_ResolveNeverPending ==
    \A p \in Procs :
        call[p] = "retrieve_key" => result[p] # "PendingTransactionError"

----------------------------------------------------------------------------
\* The context above c (get_parent_context), and how deep c is in its tree.
ParentOf(c) == SubSeq(c, 1, Len(c) - 1)

RECURSIVE Depth(_)
Depth(c) == IF Len(c) <= 1 THEN 0 ELSE 1 + Depth(ParentOf(c))

\* A message logged from context C is to be returned at context X.
Visible(C, X, level) ==
    \/ level = "all"
    \/ level = "lower" /\ Depth(C) >= Depth(X)
    \/ level = "current" /\ Depth(C) = Depth(X)

\* C23: retrieve_log at context X returns a message logged from context C
\* with 'all' always, with 'lower' exactly when C is at least as deep as X,
\* and with 'current' exactly when C and X have the same depth.
C23_LevelsByDepth ==
    seen # NoCall =>
        seen[3] = SelectSeq(log, LAMBDA r : Visible(r.path, seen[1], seen[2]))

\* The subcontext reads 'lower' from a log with a row of the root and a row
\* of its own, and gets its own row only.
C23_Witness ==
    /\ log = <<[path |-> Root], [path |-> Sub]>>
    /\ seen = <<Sub, "lower", <<[path |-> Sub]>> >>

\* A message of the subcontext is not returned at the root with 'current'.
C23_WitnessRoot ==
    /\ log = <<[path |-> Sub]>>
    /\ seen = <<Root, "current", <<>> >>

\* C24: the log only grows at its end: a store_message adds exactly one row
\* after the rows there are, and no step changes, reorders or removes a row
\* that is in the log, whatever the interleaving of the processes.
C24_AppendOnly ==
    [][/\ \A i \in 1..Len(log) : i <= Len(log') /\ log'[i] = log[i]
       /\ \A p \in Procs :
              (call[p] = "store_message" /\ pc[p] = "file" /\ pc'[p] = "idle")
                  => Len(log') = Len(log) + 1]_vars

\* C25: every context object reached from the top-level context by
\* create_subcontext, get_subcontext and get_parent_context has the model
\* database and the log file of the top-level context.
C25_OneDatabaseOneLog ==
    \A p \in Procs :
        obj[p] # NoObject =>
            /\ model_database(obj[p]) = path(Root) \o <<".modeldb">>
            /\ _log_path(obj[p]) = path(Root) \o <<"log.csv">>

\* One process has come down to the subcontext of the subcontext, another
\* has come back up from a subcontext to the top-level context.
C25_Witness ==
    \E p, q \in Procs :
        /\ obj[p].path = path(Deep)
        /\ obj[q].path = path(Root) /\ call[q] = "get_parent_context"
        /\ result[q] = "ok"

\* C27: after store_annotation(name, text) on a context,
\* retrieve_annotation(name) on that context returns text, also when the
\* name had a text before.
C27_RoundTrip ==
    noted # NoCall => retrieve_annotation(noted[1], noted[2]) = noted[3]

\* The file p's call works on, and whether a lock another process holds on
\* that file stands in the way of p's call.
FileOf(p) ==
    IF call[p] \in LogOps THEN <<"log">> ELSE <<"annotations", ctxarg[p]>>

Blocked(p) ==
    \E q \in Procs \ {p} :
        /\ fheld[q] # "none" /\ FileOf(q) = FileOf(p)
        /\ fheld[q] = "exclusive" \/ call[p] \notin ReadOps

\* C26: a call on the log or on an annotations file waits for nothing but a
\* lock held on that same file: not for a transaction or snapshot scope open
\* in the store, not for the lock of another file.  It holds the lock of its
\* file only while it reads or writes, and never the lock of the store; and
\* a transaction or snapshot waits for nothing but the lock of the store.
C26_IndependentLocks ==
    /\ \A p \in Procs :
           /\ (pc[p] = "file_lock" /\ ~Blocked(p))
                  => IF call[p] \in ReadOps THEN context_read_lock(p)
                                            ELSE context_write_lock(p)
           /\ fheld[p] # "none" <=> pc[p] = "file"
           /\ fheld[p] # "none" => held[p] = "none"
           /\ (pc[p] = "txn_lock" /\ \A q \in Procs \ {p} : held[q] = "none")
                  => _write_lock(p, TRUE)
           /\ (pc[p] = "snap_lock"
                   /\ \A q \in Procs \ {p} : held[q] # "exclusive")
                  => _read_lock(p, TRUE)

\* A process waits to annotate the subcontext while another holds the lock
\* of the log, and a process writes to the log while a transaction scope is
\* open.
C26_Witness ==
    \E p, q \in Procs :
        /\ pc[p] = "file_lock" /\ call[p] = "store_annotation"
        /\ ctxarg[p] = Sub
        /\ pc[q] = "file" /\ call[q] = "store_message"

C26_WitnessScope ==
    \E p, q \in Procs :
        /\ pc[p] = "file" /\ call[p] = "store_message"
        /\ pc[q] = "txn"

\* C28: snapshot scopes are open side by side: a snapshot scope holds the
\* lock of the store in shared mode exactly while it is open, from the check
\* of the marker to its exit, and open snapshot scopes do not keep a waiting
\* snapshot from the lock.
C28_SnapshotsShareLock ==
    \A p \in Procs :
        /\ held[p] = "shared" <=> InSnap(p)
        /\ (pc[p] = "snap_lock" /\ \A q \in Procs \ {p} : ~InTxn(q))
               => _read_lock(p, TRUE)

\* Two snapshot scopes on the same key are open.
C28_Witness ==
    \E p, q \in Procs :
        /\ p # q /\ InSnap(p) /\ InSnap(q) /\ key[p] = key[q]
        /\ held[p] = "shared" /\ held[q] = "shared"

\* Two snapshot scopes on different keys are open.
C28_WitnessKeys ==
    \E p, q \in Procs : InSnap(p) /\ InSnap(q) /\ key[p] # key[q]

\* C29: under fair scheduling, with every open scope left in the end, a
\* caller that waits in transaction() or in snapshot() gets the lock: it
\* does not wait forever.
C29_WaitersProceed ==
    \A p \in Procs :
        /\ (pc[p] = "txn_lock") ~> (pc[p] # "txn_lock")
        /\ (pc[p] = "snap_lock") ~> (pc[p] # "snap_lock")

\* C30: whenever no caller is inside store_model, also after a store_model
\* that raised or whose process died, every index file refers to a dataset
\* file that is written completely and has its datainfo, and a datainfo
\* exists only beside a complete dataset file; and no store_model fails
\* over what an earlier one left behind.
C30_IndexedFilesComplete ==
    (\A p \in Procs : ~InStoreModel(p)) =>
        /\ \A e \in index :
               /\ e[2] \in DOMAIN csv /\ csv[e[2]] # Partial
               /\ e[2] \in DOMAIN sidecar
        /\ \A f \in DOMAIN sidecar : f \in DOMAIN csv /\ csv[f] # Partial
        /\ \A p \in Procs : result[p] # "FileNotFoundError"

\* C31: constructing a context of the tree never loses a row of the log:
\* the step in which a constructor creates the log file leaves every row
\* that store_message has appended in place.
C31_ConstructionKeepsRows ==
    [][\A p \in Procs :
           (pc[p] = "init_log" /\ pc'[p] = "idle") => log' = log]_vars

\* C32: a model stored in a committed transaction on k is found by
\* retrieve_model in a snapshot of k, whatever its filename extension:
\* the call does not fail with KeyError.
C32_StoredModelFound ==
    \A p \in Procs :
        (call[p] = "retrieve_model" /\ Committed(key[p]))
            => result[p] # "KeyError"

\* C33: the rows of the log are ordered by time: whatever the interleaving
\* of the store_message calls, each with the date its caller read before the
\* call, the dates of the rows are non-decreasing from the first row to the
\* last.
C33_RowsOrderedByTime ==
    \A i, j \in DOMAIN times : i < j => times[i] <= times[j]

\* C34: concurrent updates of the annotations are not lost: whatever the
\* interleaving of the store_annotation calls of the processes on one
\* context, retrieve_annotation gives for every name the text of the last
\* store_annotation of that name that returned.
C34_NoLostAnnotation ==
    \A c \in Contexts :
        \A name \in DOMAIN stored[c] :
            retrieve_annotation(c, name) = stored[c][name]

\* The context C is the context X or lies below it in the tree.
Under(C, X) == Len(C) >= Len(X) /\ SubSeq(C, 1, Len(X)) = X

\* C35: retrieve_log('current') at a context returns only the rows logged
\* from that context itself, and retrieve_log('lower') only the rows logged
\* from it or from a context below it: never a row of a sibling or of
\* another branch of the tree.
C35_OwnBranchOnly ==
    seen # NoCall =>
        \A i \in DOMAIN seen[3] :
            /\ seen[2] = "current" => seen[3][i].path = seen[1]
            /\ seen[2] = "lower" => Under(seen[3][i].path, seen[1])

\* A step of store_key(n, k) on context c.
StoreKeyStep(c, n, k) == last' = <<c, n, k>> /\ UNCHANGED <<procs, store>>

\* Every name link points to a record directory that exists.
NoDanglingLink ==
    \A c \in Contexts, n \in Names :
        links[c][n] # NoKey => links[c][n] \in dirs

\* C36 as stated: after store_key(name, k) for a k without record,
\* retrieve_key(name) raises KeyError, whatever name was linked to before.
C36_Original ==
    [][\A c \in Contexts, n \in Names, k \in Keys :
         (StoreKeyStep(c, n, k) /\ k \notin dirs)
             => retrieve_key(c, n)' = "KeyError"
      ]_vars

\* C36: name links never dangle.  store_key(name, k) creates a link only
\* when the record directory of k exists, and leaves every existing link
\* as it is, so every link of every context points to an existing record
\* directory.  When k has no record, store_key creates nothing and raises
\* nothing, and retrieve_key(name) afterwards raises KeyError if name had no
\* link, and resolves to the key name was linked to otherwise.
C36_LinksNeverDangle ==
    /\ []NoDanglingLink
    /\ [][\A c \in Contexts, n \in Names, k \in Keys :
            StoreKeyStep(c, n, k) =>
                /\ \A c2 \in Contexts, n2 \in Names :
                       links[c2][n2] # NoKey => links'[c2][n2] = links[c2][n2]
                /\ links' # links => k \in dirs
                /\ k \notin dirs =>
                       /\ links' = links
                       /\ retrieve_key(c, n)' = retrieve_key(c, n)
                       /\ links[c][n] = NoKey
                              => retrieve_key(c, n)' = "KeyError"
         ]_vars

\* store_key has been called on the subcontext for run2 and m2, which has no
\* record: run2 has no link, and the link of run1 to m1 is in place.
C36_Witness ==
    /\ last = <<Sub, "run2", "m2">>
    /\ "m2" \notin dirs
    /\ retrieve_key(Sub, "run2") = "KeyError"
    /\ retrieve_key(Sub, "run1") = "m1"

\* store_key has been called for run1 and m2, which has no record, on a
\* context where run1 is linked to m1.
C36_WitnessLinked ==
    /\ last = <<Root, "run1", "m2">>
    /\ "m2" \notin dirs
    /\ retrieve_key(Root, "run1") = "m1"

\* p's store_annotation rewrites the file and returns in this step.
WriteNotesStep(p) ==
    pc[p] = "file" /\ call[p] = "store_annotation" /\ pc'[p] = "idle"

\* C37: the annotations of a context hold at most one row per name.
\* store_annotation(name, text) replaces the row of name where it stands, or
\* appends one row when there is none, and leaves every other row in place,
\* so that retrieve_annotation of every other name gives what it gave
\* before.
C37_OneRowPerName ==
    /\ [](\A c \in Contexts :
              \A i, j \in DOMAIN notes[c] :
                  split_name(notes[c][i]) = split_name(notes[c][j]) => i = j)
    /\ [][\A p \in Procs, c \in Contexts, name \in AnnNames :
            (WriteNotesStep(p) /\ noted'[1] = c /\ noted'[2] = name) =>
                LET rows == {i \in DOMAIN notes[c] :
                                split_name(notes[c][i]) = name}
                IN  /\ \A i \in DOMAIN notes[c] \ rows :
                           /\ i \in DOMAIN notes'[c]
                           /\ notes'[c][i] = notes[c][i]
                    /\ Len(notes'[c]) =
                           Len(notes[c]) + (IF rows = {} THEN 1 ELSE 0)
                    /\ \A other \in AnnNames \ {name} :
                           retrieve_annotation(c, other)'
                               = retrieve_annotation(c, other)
                    /\ \A c2 \in Contexts \ {c} : notes'[c2] = notes[c2]
         ]_vars

\* p's call has returned or raised in this step, and it was the call op.
Moved(p, op) ==
    /\ call'[p] = op
    /\ <<call[p], result[p], obj[p]>>' # <<call[p], result[p], obj[p]>>

\* The directory of the subcontext n of the context with directory pth, the
\* context a directory belongs to, and the logical path of that context.
child(pth, n) == pth \o <<"subcontexts", n>>
ContextAt(pth) == CHOOSE c \in Forest : path(c) = pth
LogicalPath(pth) == context_path(ContextAt(pth))

C38_WitnessRaises ==
    \E p, q \in Procs :
        /\ call[p] = "get_subcontext" /\ result[p] = "ValueError"
        /\ obj[p].path = path(Sub)
        /\ call[q] = "get_parent_context" /\ result[q] = "ValueError"
        /\ obj[q].path = path(Root)

\* C39: creating a context is idempotent: a constructor that finds a
\* context at its path leaves the annotations, the name links, the context
\* directories and the rows of the log as they are, in each of its steps,
\* and when a constructor returns the context exists.
C39_ConstructionIdempotent ==
    [][\A p \in Procs :
         /\ (pc[p] = "idle" /\ pc'[p] = "init_log" /\ ~made'[p])
                => UNCHANGED <<ctxdirs, log, notes, links>>
         /\ (pc[p] = "init_log" /\ pc'[p] = "idle")
                => /\ path(ctxarg[p]) \in ctxdirs'
                   /\ ~made[p] => UNCHANGED <<ctxdirs, log, notes, links>>
      ]_vars

\* C40: store_local_file inside a transaction on k changes the record of k
\* only, and a path that lies in the store itself is ignored: no error is
\* raised, and the transaction can still commit.
C40_SelfCopyIgnored ==
    [][\A p \in Procs :
         pc[p] = "txn" =>
             /\ \A k \in Keys \ {key[p]} : files'[k] = files[k]
             /\ result'[p] # "SameFileError"
      ]_vars

====
